---- MODULE Spec2Model ----
(***************************************************************************)
(* A model of get_welsh_castles_from_wikidata.py: main() and the functions *)
(* it calls.  One process run is Fetch, the record mapping loop, the menu  *)
(* (get_option_from_list / get_integer_input_in_range) and then either the *)
(* random download (option 0) or the SQLite population (option 1).  The    *)
(* database file outlives a run, so Restart starts the script again on the *)
(* database the earlier runs left behind.                                  *)
(***************************************************************************)
EXTENDS Integers, Sequences, FiniteSets, TLC

VARIABLES
    pc,              \* position of the run in main()
    err,             \* the exception that ended the run, "" when none
    out,             \* what the last step wrote to standard output
    json_data,       \* data["results"]["bindings"] of the wikidata response
    castles,         \* the list get_castles_from_json builds
    idx,             \* position of the running for loop (mapping, inserts)
    min_val, max_val,\* arguments of get_integer_input_in_range
    inp, int_val,    \* its locals
    line,            \* the line input() returned last
    n_rejected,      \* lines this call has rejected so far
    option_selected, \* main's option_selected, -1 before the menu returns
    random_castle,   \* main's random_castle
    displayed,       \* the record pprint showed
    requested,       \* the url requests.get was called with for the image
    written,         \* the file name the image was written to
    db_file,         \* castles.db exists
    disk,            \* committed content of castles.db: [schema, rows]
    conn,            \* "none", "open" or "closed"
    work,            \* the rows as the open connection sees them
    sql_log,         \* the calls made on the connection in this run, in order
    disk0,           \* committed rows when this run started
    prev             \* the run before this one: did it populate, with what

mapVars   == <<json_data, castles, idx>>
inputVars == <<min_val, max_val, inp, int_val, line, n_rejected>>
dlVars    == <<random_castle, displayed, requested, written>>
dbVars    == <<db_file, disk, conn, work, sql_log>>
histVars  == <<disk0, prev>>
vars == <<pc, err, out, mapVars, inputVars, option_selected, dlVars, dbVars, histVars>>

----------------------------------------------------------------------------
(* Bounds *)

MaxBindings == 2     \* bindings in one response
MaxLineLen  == 2     \* characters in one line typed at the prompt
MaxRejects  == 2     \* lines one call of the prompt may reject

----------------------------------------------------------------------------
(* Values *)

\* Python's None and SQL's NULL, kept apart from every string (strings are
\* sequences of characters here, "" is <<>>).
None == <<"None">>
NULL == <<"NULL">>

IntValDefault == -1001

ImageUrl == <<"x", "/", "i">>

\* One binding of the response: keys to {"value": ...}.
Item(name, location) ==
    [k \in {"itemLabel", "locationLabel"} |->
        [value |-> IF k = "itemLabel" THEN name ELSE location]]

ItemWithImage(name, location, image) ==
    [k \in {"itemLabel", "locationLabel", "image"} |->
        [value |-> CASE k = "itemLabel" -> name
                     [] k = "locationLabel" -> location
                     [] OTHER -> image]]

WellFormedItems ==
    { Item(<<"A">>, <<"L">>),
      ItemWithImage(<<"B">>, <<"M">>, ImageUrl),
      ItemWithImage(<<"C">>, <<"N">>, <<>>) }

\* A binding without locationLabel.
MalformedItems == { [k \in {"itemLabel"} |-> [value |-> <<"D">>]] }

Items == WellFormedItems \cup MalformedItems

SeqsUpTo(S, n) == UNION { [1..m -> S] : m \in 0..n }

JsonDatas == SeqsUpTo(Items, MaxBindings)

NoCastle == [name |-> <<>>, location |-> <<>>, image |-> None]

options == << "Download a Random Castle", "Populate SQLite Table" >>

----------------------------------------------------------------------------
(* int() and is_integer: Python's int(str) accepts surrounding whitespace, *)
(* one sign, and decimal digits with single underscores between digits.    *)

Digits == {"0", "1", "2", "3", "4", "5", "6", "7", "8", "9"}

Whitespace == {" "}

DigitVal(c) ==
    CASE c = "0" -> 0 [] c = "1" -> 1 [] c = "2" -> 2 [] c = "3" -> 3
      [] c = "4" -> 4 [] c = "5" -> 5 [] c = "6" -> 6 [] c = "7" -> 7
      [] c = "8" -> 8 [] c = "9" -> 9

RECURSIVE lstrip(_)
lstrip(s) ==
    IF s # <<>> /\ Head(s) \in Whitespace THEN lstrip(Tail(s)) ELSE s

RECURSIVE rstrip(_)
rstrip(s) ==
    IF s # <<>> /\ s[Len(s)] \in Whitespace
    THEN rstrip(SubSeq(s, 1, Len(s) - 1))
    ELSE s

strip(s) == rstrip(lstrip(s))

\* The literal without whitespace and sign.
Unsigned(s) ==
    LET t == strip(s)
    IN  IF t # <<>> /\ Head(t) \in {"+", "-"} THEN Tail(t) ELSE t

Negative(s) ==
    LET t == strip(s) IN t # <<>> /\ Head(t) = "-"

\* int(val) does not raise ValueError.
ParsesAsInt(val) ==
    LET b == Unsigned(val)
    IN  /\ b # <<>>
        /\ b[1] \in Digits
        /\ b[Len(b)] \in Digits
        /\ \A i \in 1..Len(b) : b[i] \in Digits \cup {"_"}
        /\ \A i \in 1..(Len(b) - 1) : ~(b[i] = "_" /\ b[i + 1] = "_")

RECURSIVE DigitsValue(_)
DigitsValue(b) ==
    IF b = <<>> THEN 0
    ELSE LET last == b[Len(b)]
             rest == SubSeq(b, 1, Len(b) - 1)
         IN  IF last = "_" THEN DigitsValue(rest)
             ELSE 10 * DigitsValue(rest) + DigitVal(last)

\* int(val), for a val that parses.
int(val) ==
    IF Negative(val) THEN 0 - DigitsValue(Unsigned(val))
    ELSE DigitsValue(Unsigned(val))

is_integer(val) == ParsesAsInt(val)

\* What can be typed at the prompt.
Alphabet == {"1", "2", "-", "+", " ", "_", "a"}

Lines == SeqsUpTo(Alphabet, MaxLineLen)

\* The lines tried at main's menu.
MenuLines ==
    { <<"1">>, <<"2">>, <<" ", "2">>, <<"3">>, <<"-", "1">>, <<"a">>, <<>> }

\* The (min_val, max_val) pairs get_integer_input_in_range is tried with.
InputRanges == { <<1, 2>>, <<-1, 1>>, <<2, 12>>, <<-22, -2>>, <<2, 1>>, <<-1000, 1000>> }

----------------------------------------------------------------------------
(* The initial state: a process about to run main(), no database file yet. *)

FreshRun ==
    /\ pc = "start"
    /\ err = ""
    /\ out = <<>>
    /\ json_data = <<>>
    /\ castles = <<>>
    /\ idx = 1
    /\ min_val = 0
    /\ max_val = 0
    /\ inp = <<>>
    /\ int_val = 0
    /\ line = <<>>
    /\ n_rejected = 0
    /\ option_selected = -1
    /\ random_castle = NoCastle
    /\ displayed = NoCastle
    /\ requested = None
    /\ written = None
    /\ conn = "none"
    /\ sql_log = <<>>

Init ==
    /\ FreshRun
    /\ db_file = FALSE
    /\ disk = [schema |-> FALSE, rows |-> <<>>]
    /\ work = <<>>
    /\ disk0 = <<>>
    /\ prev = [populated |-> FALSE, castles |-> <<>>]

\* An exception nothing catches: main() ends, and a connection that is open
\* goes away without a commit, so what it wrote is rolled back.
Raise(e) ==
    /\ pc' = "aborted"
    /\ err' = e
    /\ out' = <<"traceback">>
    /\ conn' = IF conn = "open" THEN "closed" ELSE conn
    /\ work' = disk.rows

----------------------------------------------------------------------------
(* main, lines 194-196: read the query, ask wikidata.                      *)

Fetch ==
    /\ pc = "start"
    /\ \/ /\ \E data \in JsonDatas : json_data' = data
          /\ castles' = <<>>
          /\ idx' = 1
          /\ pc' = "map"
          /\ out' = <<>>
          /\ UNCHANGED <<err, conn, work>>
       \/ /\ \E e \in {"FileNotFoundError", "RequestException"} : Raise(e)
          /\ UNCHANGED mapVars
    /\ UNCHANGED <<inputVars, option_selected, dlVars, db_file, disk, sql_log, histVars>>

(* get_castles_from_json, lines 56-67: one iteration of the for loop.      *)

CastleOf(item) ==
    [ name     |-> item["itemLabel"].value,
      location |-> item["locationLabel"].value,
      image    |-> IF "image" \in DOMAIN item THEN item["image"].value ELSE None ]

\* castles.insert(0, castle) in place of castles.append(castle).
castles_insert_first(cs, castle) == <<castle>> \o cs

\* Line 67: castles.append(castle).
castles_append(cs, castle) == Append(cs, castle)

MapItem ==
    /\ pc = "map"
    /\ idx <= Len(json_data)
    /\ LET item == json_data[idx]
       IN  IF {"itemLabel", "locationLabel"} \subseteq DOMAIN item
           THEN /\ castles' = castles_append(castles, CastleOf(item))
                /\ idx' = idx + 1
                /\ UNCHANGED <<pc, err, out, conn, work, json_data>>
           ELSE /\ Raise("KeyError")
                /\ UNCHANGED mapVars
    /\ UNCHANGED <<inputVars, option_selected, dlVars, db_file, disk, sql_log, histVars>>

(* get_castles_from_json returns (line 69); main goes on to the menu and   *)
(* get_option_from_list prints the options and calls the prompt            *)
(* (lines 198-205, 144-151).                                               *)

GetOptionFromList ==
    /\ pc = "map"
    /\ idx > Len(json_data)
    /\ pc' = "input"
    /\ out' = [i \in 1..Len(options) |-> "option"]
    /\ min_val' = 1
    /\ max_val' = Len(options)
    /\ inp' = <<>>
    /\ UNCHANGED <<err, mapVars, int_val, line, n_rejected, option_selected,
                   dlVars, dbVars, histVars>>

(* get_integer_input_in_range, lines 121-131: one pass of the while loop,  *)
(* and the test of its condition that follows.                             *)

\* The bounds taken as exclusive.
InRangeExclusive(v) == ~(v <= min_val \/ v >= max_val)

\* Line 129: the value is not rejected by the range test.
InRange(v) == ~(v < min_val \/ v > max_val)

ReadLine(typed) ==
    /\ pc = "input"
    /\ ~is_integer(inp)
    /\ \E l \in typed :
        LET rangeError == is_integer(l) /\ ~InRange(int(l))
            inp2 == IF rangeError THEN <<>> ELSE l
        IN  /\ line' = l
            /\ inp' = inp2
            /\ int_val' = IF is_integer(l) THEN int(l) ELSE IntValDefault
            /\ out' = IF rangeError THEN <<"prompt", "not in range">>
                      ELSE <<"prompt">>
            /\ IF is_integer(inp2)
               THEN /\ pc' = "returned"
                    /\ UNCHANGED n_rejected
               ELSE /\ n_rejected < MaxRejects
                    /\ n_rejected' = n_rejected + 1
                    /\ UNCHANGED pc
    /\ UNCHANGED <<err, mapVars, min_val, max_val, option_selected,
                   dlVars, dbVars, histVars>>

ReadMenuLine == ReadLine(MenuLines)

(* get_integer_input_in_range returns int_val (line 133),                  *)
(* get_option_from_list returns value - 1 (line 153), main stores it.      *)

ReturnOption ==
    /\ pc = "returned"
    /\ option_selected' = int_val - 1
    /\ pc' = "branch"
    /\ out' = <<>>
    /\ UNCHANGED <<err, mapVars, inputVars, dlVars, dbVars, histVars>>

----------------------------------------------------------------------------
(* Option 0, lines 207-216.                                                *)

Elements(sq) == { sq[i] : i \in 1..Len(sq) }

\* The list without the filter.
castles_unfiltered == castles

\* Line 208.
castles_with_images == SelectSeq(castles, LAMBDA castle : castle.image # None)

\* The choice guarded: with nothing to choose from, main ends quietly.
ChooseRandomGuarded ==
    /\ pc = "branch"
    /\ option_selected = 0
    /\ IF castles_with_images = <<>>
       THEN /\ pc' = "done"
            /\ UNCHANGED random_castle
       ELSE /\ \E c \in Elements(castles_with_images) : random_castle' = c
            /\ pc' = "display"
    /\ out' = <<>>
    /\ UNCHANGED <<err, conn, work>>
    /\ UNCHANGED <<mapVars, inputVars, option_selected, displayed, requested,
                   written, db_file, disk, sql_log, histVars>>

\* Lines 208-212: the filter and random.choice, which raises IndexError on
\* an empty list.
ChooseRandom ==
    /\ pc = "branch"
    /\ option_selected = 0
    /\ IF castles_with_images = <<>>
       THEN /\ Raise("IndexError")
            /\ UNCHANGED random_castle
       ELSE /\ \E c \in Elements(castles_with_images) : random_castle' = c
            /\ pc' = "display"
            /\ out' = <<>>
            /\ UNCHANGED <<err, conn, work>>
    /\ UNCHANGED <<mapVars, inputVars, option_selected, displayed, requested,
                   written, db_file, disk, sql_log, histVars>>

\* Line 214: pprint(random_castle).
Display ==
    /\ pc = "display"
    /\ displayed' = random_castle
    /\ out' = <<"castle">>
    /\ pc' = "download"
    /\ UNCHANGED <<err, mapVars, inputVars, option_selected, random_castle,
                   requested, written, dbVars, histVars>>

\* wikimedia_commons_url.split("/")[-1]
RECURSIVE LastSegment(_)
LastSegment(url) ==
    IF url = <<>> THEN <<>>
    ELSE IF url[Len(url)] = "/" THEN <<>>
    ELSE Append(LastSegment(SubSeq(url, 1, Len(url) - 1)), url[Len(url)])

\* Line 216 and download_wikimedia_commons_image, lines 77-86.  requests.get
\* refuses an empty url before it sends anything; a request that was sent
\* may fail; open() refuses an empty file name.
Download ==
    /\ pc = "download"
    /\ LET url == random_castle.image
           filename == LastSegment(url)
       IN  \/ /\ url = <<>>
              /\ Raise("MissingSchema")
              /\ UNCHANGED <<requested, written>>
           \/ /\ url # <<>>
              /\ requested' = url
              /\ \/ /\ Raise("RequestException")
                    /\ UNCHANGED written
                 \/ /\ filename = <<>>
                    /\ Raise("FileNotFoundError")
                    /\ UNCHANGED written
                 \/ /\ filename # <<>>
                    /\ written' = filename
                    /\ pc' = "done"
                    /\ out' = <<>>
                    /\ UNCHANGED <<err, conn, work>>
    /\ UNCHANGED <<mapVars, inputVars, option_selected, random_castle, displayed,
                   db_file, disk, sql_log, histVars>>

----------------------------------------------------------------------------
(* Option 1, lines 217-255.                                                *)

\* What the statement of each .sql file does to the rows of the table.
cursor_execute(query, parameters, rows) ==
    CASE query = "createTable" -> rows
      [] query = "deleteData" -> <<>>
      [] query = "insertCastleImage" ->
            Append(rows, [name |-> parameters[1], location |-> parameters[2],
                          image |-> parameters[3]])
      [] query = "insertCastleWithoutImage" ->
            Append(rows, [name |-> parameters[1], location |-> parameters[2],
                          image |-> NULL])

\* execute_sqlite_query, lines 183-189: what it prints.
execute_sqlite_query_prints(parameters) ==
    IF parameters # <<>> THEN <<"query", "parameters">> ELSE <<>>

Logged(stmt, parameters) ==
    Append(sql_log, [stmt |-> stmt, params |-> parameters])

\* Lines 218-226: create castles.db when it is missing, connect, get a cursor.
OpenDb ==
    /\ pc = "branch"
    /\ option_selected = 1
    /\ db_file' = TRUE
    /\ conn' = "open"
    /\ work' = disk.rows
    /\ pc' = "create"
    /\ out' = <<>>
    /\ UNCHANGED <<err, mapVars, inputVars, option_selected, dlVars, disk,
                   sql_log, histVars>>

\* Line 228.  No transaction is open yet, so the table is created at once.
CreateTable ==
    /\ pc = "create"
    /\ \/ /\ disk' = [disk EXCEPT !.schema = TRUE]
          /\ sql_log' = Logged("createTable", <<>>)
          /\ out' = execute_sqlite_query_prints(<<>>)
          /\ pc' = "delete"
          /\ UNCHANGED <<err, conn, work>>
       \/ /\ Raise("sqlite3.Error")
          /\ UNCHANGED <<disk, sql_log>>
    /\ UNCHANGED <<mapVars, inputVars, option_selected, dlVars, db_file, histVars>>

\* The delete-all statement left out.
DeleteDataSkipped ==
    /\ pc = "delete"
    /\ pc' = "insert"
    /\ idx' = 1
    /\ out' = <<>>
    /\ UNCHANGED <<err, conn, work, sql_log>>
    /\ UNCHANGED <<json_data, castles, inputVars, option_selected, dlVars,
                   db_file, disk, histVars>>

\* Lines 230-237.  The DELETE opens the transaction the inserts join.
DeleteData ==
    /\ pc = "delete"
    /\ \/ /\ work' = cursor_execute("deleteData", <<>>, work)
          /\ sql_log' = Logged("deleteData", <<>>)
          /\ out' = execute_sqlite_query_prints(<<>>)
          /\ pc' = "insert"
          /\ idx' = 1
          /\ UNCHANGED <<err, conn>>
       \/ /\ Raise("sqlite3.Error")
          /\ UNCHANGED <<sql_log, idx>>
    /\ UNCHANGED <<json_data, castles, inputVars, option_selected, dlVars,
                   db_file, disk, histVars>>

\* Python's truth value of castle["image"].
Truthy(v) == v # None /\ v # <<>>

\* Lines 241-249: the statement and the tuple chosen for one castle.
insert_castle_query(castle) ==
    IF Truthy(castle.image) THEN "insertCastleImage" ELSE "insertCastleWithoutImage"

castle_tuple(castle) ==
    IF Truthy(castle.image)
    THEN <<castle.name, castle.location, castle.image>>
    ELSE <<castle.name, castle.location>>

\* The loop with con.commit() after every insert.
InsertCastleCommitting ==
    /\ pc = "insert"
    /\ idx <= Len(castles)
    /\ LET castle == castles[idx]
           query == insert_castle_query(castle)
           parameters == castle_tuple(castle)
       IN  \/ /\ work' = cursor_execute(query, parameters, work)
              /\ disk' = [disk EXCEPT !.rows = work']
              /\ sql_log' = Append(Logged(query, parameters),
                                   [stmt |-> "commit", params |-> <<>>])
              /\ out' = execute_sqlite_query_prints(parameters)
              /\ idx' = idx + 1
              /\ UNCHANGED <<pc, err, conn>>
           \/ /\ Raise("sqlite3.Error")
              /\ UNCHANGED <<sql_log, idx, disk>>
    /\ UNCHANGED <<json_data, castles, inputVars, option_selected, dlVars,
                   db_file, histVars>>

\* Lines 239-251: one iteration of the for loop.
InsertCastle ==
    /\ pc = "insert"
    /\ idx <= Len(castles)
    /\ LET castle == castles[idx]
           query == insert_castle_query(castle)
           parameters == castle_tuple(castle)
       IN  \/ /\ work' = cursor_execute(query, parameters, work)
              /\ sql_log' = Logged(query, parameters)
              /\ out' = execute_sqlite_query_prints(parameters)
              /\ idx' = idx + 1
              /\ UNCHANGED <<pc, err, conn>>
           \/ /\ Raise("sqlite3.Error")
              /\ UNCHANGED <<sql_log, idx>>
    /\ UNCHANGED <<json_data, castles, inputVars, option_selected, dlVars,
                   db_file, disk, histVars>>

\* The commit reached before the loop is through (lines 253-254 indented
\* into the loop body).
CommitInsideLoop ==
    /\ pc = "insert"
    /\ idx > 1 \/ castles = <<>>
    /\ disk' = [disk EXCEPT !.rows = work]
    /\ sql_log' = Append(Logged("cur.close", <<>>),
                         [stmt |-> "commit", params |-> <<>>])
    /\ pc' = "close"
    /\ out' = <<>>
    /\ UNCHANGED <<err, mapVars, inputVars, option_selected, dlVars, db_file,
                   conn, work, histVars>>

\* Lines 253-254: cur.close(), con.commit().
Commit ==
    /\ pc = "insert"
    /\ idx > Len(castles)
    /\ disk' = [disk EXCEPT !.rows = work]
    /\ sql_log' = Append(Logged("cur.close", <<>>),
                         [stmt |-> "commit", params |-> <<>>])
    /\ pc' = "close"
    /\ out' = <<>>
    /\ UNCHANGED <<err, mapVars, inputVars, option_selected, dlVars, db_file,
                   conn, work, histVars>>

\* Line 255: con.close(); main returns.
Close ==
    /\ pc = "close"
    /\ conn' = "closed"
    /\ sql_log' = Logged("close", <<>>)
    /\ pc' = "done"
    /\ out' = <<>>
    /\ UNCHANGED <<err, mapVars, inputVars, option_selected, dlVars, db_file,
                   disk, work, histVars>>

----------------------------------------------------------------------------
(* Lines 257-258: the script is started again once a run has ended.        *)

Populated == pc = "done" /\ option_selected = 1

Restart ==
    /\ pc \in {"done", "aborted"}
    /\ pc' = "start"
    /\ err' = ""
    /\ out' = <<>>
    /\ json_data' = <<>>
    /\ castles' = <<>>
    /\ idx' = 1
    /\ min_val' = 0
    /\ max_val' = 0
    /\ inp' = <<>>
    /\ int_val' = 0
    /\ line' = <<>>
    /\ n_rejected' = 0
    /\ option_selected' = -1
    /\ random_castle' = NoCastle
    /\ displayed' = NoCastle
    /\ requested' = None
    /\ written' = None
    /\ conn' = "none"
    /\ sql_log' = <<>>
    /\ disk0' = disk.rows
    /\ prev' = [populated |-> Populated,
                castles   |-> IF Populated THEN castles ELSE <<>>]
    /\ UNCHANGED <<db_file, disk, work>>

Next ==
    \/ Fetch
    \/ MapItem
    \/ GetOptionFromList
    \/ ReadMenuLine
    \/ ReturnOption
    \/ ChooseRandom
    \/ Display
    \/ Download
    \/ OpenDb
    \/ CreateTable
    \/ DeleteData
    \/ InsertCastle
    \/ Commit
    \/ Close
    \/ Restart

Spec == Init /\ [][Next]_vars

----------------------------------------------------------------------------
(* get_integer_input_in_range on its own, called with one of InputRanges   *)
(* and any line of Lines typed at each prompt.                             *)

InitInput ==
    /\ \E range \in InputRanges :
        /\ min_val = range[1]
        /\ max_val = range[2]
    /\ pc = "input"
    /\ err = ""
    /\ out = <<>>
    /\ json_data = <<>>
    /\ castles = <<>>
    /\ idx = 1
    /\ inp = <<>>
    /\ int_val = 0
    /\ line = <<>>
    /\ n_rejected = 0
    /\ option_selected = -1
    /\ random_castle = NoCastle
    /\ displayed = NoCastle
    /\ requested = None
    /\ written = None
    /\ conn = "none"
    /\ sql_log = <<>>
    /\ db_file = FALSE
    /\ disk = [schema |-> FALSE, rows |-> <<>>]
    /\ work = <<>>
    /\ disk0 = <<>>
    /\ prev = [populated |-> FALSE, castles |-> <<>>]

ReadAnyLine == ReadLine(Lines)

NextInput == ReadAnyLine

SpecInput == InitInput /\ [][NextInput]_vars

----------------------------------------------------------------------------
(* Properties *)

RowOf(castle) ==
    [ name     |-> castle.name,
      location |-> castle.location,
      image    |-> IF castle.image = None THEN NULL ELSE castle.image ]

RowsOf(cs) == [i \in 1..Len(cs) |-> RowOf(cs[i])]

IsInsert(entry) ==
    entry.stmt \in {"insertCastleImage", "insertCastleWithoutImage"}

Committed == \E k \in 1..Len(sql_log) : sql_log[k].stmt = "commit"

\* C1: after a population run that completes, the table holds exactly the
\* rows of this run's records, one per record and in their order, the image
\* NULL exactly for a record without image, whatever the table held before.
C1_TableIsThisRunsRecords ==
    Populated => disk.rows = RowsOf(castles)

\* C2: when a statement of the population path fails the run aborts, no
\* commit has been made, and the committed rows are the ones the run found.
C2_FailureCommitsNothing ==
    err = "sqlite3.Error" =>
        /\ pc = "aborted"
        /\ ~Committed
        /\ disk.rows = disk0

C2_Witness ==
    /\ err = "sqlite3.Error"
    /\ \E k \in 1..Len(sql_log) : IsInsert(sql_log[k])
    /\ disk0 # <<>>
    /\ disk.rows = disk0

WellFormed(data) ==
    \A i \in 1..Len(data) : {"itemLabel", "locationLabel"} \subseteq DOMAIN data[i]

\* C3: for a well-formed binding list, get_castles_from_json returns as many
\* records as there are bindings, the i-th with the name, location and image
\* of the i-th binding, and image None for a binding without the image key.
C3_MapperKeepsLengthAndOrder ==
    (pc \notin {"start", "map"} /\ WellFormed(json_data)) =>
        /\ Len(castles) = Len(json_data)
        /\ \A i \in 1..Len(json_data) :
            /\ castles[i].name = json_data[i]["itemLabel"].value
            /\ castles[i].location = json_data[i]["locationLabel"].value
            /\ castles[i].image =
                  IF "image" \in DOMAIN json_data[i]
                  THEN json_data[i]["image"].value
                  ELSE None

C3_Witness ==
    /\ pc = "input"
    /\ Len(json_data) = 2
    /\ json_data[1] # json_data[2]
    /\ "image" \notin DOMAIN json_data[2]
    /\ castles[2].image = None
    /\ castles[1].image = ImageUrl

HasImage(castle) == castle.image # None

\* C4: with option 0 and a record with an image, the record chosen, the one
\* displayed and the one whose image is requested is a record of the list
\* that has an image.
C4_ChosenCastleHasImage ==
    (option_selected = 0 /\ pc \in {"display", "download", "done", "aborted"}
        /\ \E i \in 1..Len(castles) : HasImage(castles[i])) =>
        /\ random_castle \in Elements(castles)
        /\ HasImage(random_castle)
        /\ displayed \in {NoCastle, random_castle}
        /\ requested \in {None, random_castle.image}
        /\ pc = "done" => (displayed = random_castle /\ requested = random_castle.image)

C4_Witness ==
    /\ option_selected = 0
    /\ pc = "done"
    /\ \E i \in 1..Len(castles) : ~HasImage(castles[i])
    /\ displayed = random_castle
    /\ requested = ImageUrl
    /\ written = <<"i">>

\* C5: with option 0 and no record with an image, the run ends in the error
\* of choosing from an empty list; no castle is displayed, no image is
\* requested and no file is written.
C5_EmptySelectionFails ==
    (option_selected = 0 /\ pc # "branch"
        /\ \A i \in 1..Len(castles) : ~HasImage(castles[i])) =>
        /\ pc = "aborted"
        /\ err = "IndexError"
        /\ displayed = NoCastle
        /\ requested = None
        /\ written = None

C5_Witness ==
    /\ option_selected = 0
    /\ err = "IndexError"
    /\ Len(castles) = 2
    /\ \A i \in 1..Len(castles) : ~HasImage(castles[i])

\* A line that parses as an integer within [min_val, max_val].
Accepted(l) == is_integer(l) /\ min_val <= int(l) /\ int(l) <= max_val

\* C6: get_integer_input_in_range returns only on a line that parses as an
\* integer within [min_val, max_val], it returns that integer, and every
\* line read while the call goes on was not such a line: the value returned
\* is the first acceptable line.
C6_ReturnsFirstAcceptedLine ==
    /\ pc = "returned" =>
        /\ Accepted(line)
        /\ int_val = int(line)
        /\ min_val <= int_val /\ int_val <= max_val
    /\ (pc = "input" /\ n_rejected > 0) => ~Accepted(line)

C6_Witness ==
    /\ pc = "returned"
    /\ n_rejected = 2
    /\ min_val = -1 /\ max_val = 1
    /\ line = <<"-", "1">>
    /\ int_val = -1

\* C7: every rejected line, out of range or not an integer, has a diagnostic
\* printed before the next prompt.
C7_DiagnosticOnEveryRejection ==
    (pc = "input" /\ n_rejected > 0) => "not in range" \in Elements(out)

\* C8: every insert is the three-parameter statement bound to (name,
\* location, image) when the record's image is not None, the empty string
\* included, and the two-parameter statement bound to (name, location) when
\* it is None.
C8_VariantFollowsPresence ==
    \A k \in 1..Len(sql_log) :
        IsInsert(sql_log[k]) =>
            LET castle == castles[k - 2]
                params == sql_log[k].params
            IN  IF HasImage(castle)
                THEN /\ sql_log[k].stmt = "insertCastleImage"
                     /\ Len(params) = 3
                     /\ params = <<castle.name, castle.location, castle.image>>
                ELSE /\ sql_log[k].stmt = "insertCastleWithoutImage"
                     /\ Len(params) = 2
                     /\ params = <<castle.name, castle.location>>

\* The call a population run over `cs` makes at position k.
ExpectedCall(cs, k, entry) ==
    LET n == Len(cs)
    IN  CASE k = 1 -> entry.stmt = "createTable"
          [] k = 2 -> entry.stmt = "deleteData"
          [] k > 2 /\ k <= n + 2 ->
                /\ IsInsert(entry)
                /\ entry.params[1] = cs[k - 2].name
                /\ entry.params[2] = cs[k - 2].location
          [] k = n + 3 -> entry.stmt = "cur.close"
          [] k = n + 4 -> entry.stmt = "commit"
          [] k = n + 5 -> entry.stmt = "close"
          [] OTHER -> FALSE

\* C9: a population run executes the schema creation, then the delete-all,
\* then one insert per record in record order, then commits, then closes the
\* connection: no insert before the delete, no commit before the last insert.
C9_StatementOrder ==
    /\ \A k \in 1..Len(sql_log) : ExpectedCall(castles, k, sql_log[k])
    /\ Populated => Len(sql_log) = Len(castles) + 5
    /\ disk.rows # disk0 => Committed

C9_Witness ==
    /\ Populated
    /\ Len(castles) = 2
    /\ castles[1] # castles[2]
    /\ Len(sql_log) = 7

\* C10: a population run right after a population run with the same records
\* leaves the table as the first run left it.
C10_SecondRunChangesNothing ==
    (Populated /\ prev.populated /\ prev.castles = castles) => disk.rows = disk0

C10_Witness ==
    /\ Populated
    /\ prev.populated
    /\ prev.castles = castles
    /\ Len(castles) = 2
    /\ Len(disk.rows) = 2

====
